---- MODULE Spec2Model ----
(***************************************************************************)
(* Model of app/src/main/cpp/lc3_jni.cpp: the JNI shim that allocates LC3  *)
(* encoder/decoder sessions with malloc, forwards encode/decode to the     *)
(* liblc3 engine and frees the sessions.  The heap, the handles the Java   *)
(* caller holds, the engine state stored in each block and the trace of the *)
(* last native call are the state.                                         *)
(***************************************************************************)
EXTENDS Integers, FiniteSets, Sequences, TLC

\* ------------------------------------------------------------ bounds
\* Heap addresses malloc can hand out are 1..NAddr.
NAddr == 2
\* Distinct frame contents the caller can pass are 1..NData.
NData == 2
\* Frames each of the two concurrent threads pushes through its session.
MaxCalls == 2

\* ------------------------------------------------------------ program constants
\* The null handle / NULL pointer.
NULL == 0
\* Number of leading bytes the debug log reads from a pinned buffer.
DebugBytes == 8

Addr == 1..NAddr
Data == 1..NData
\* Lengths of the Java arrays the caller passes: one shorter than the debug
\* log's window and one that covers it (a whole frame).
MaxLen == DebugBytes
ArrayLens == {DebugBytes \div 2, MaxLen}

\* A Java byte array reference: len = -1 is the null reference.
NullArr == [len |-> -1, data |-> 0]
\* Arrays the caller may pass as input: null, one array of each length, and
\* whole frames (the largest length) of every content.
Arrays == {NullArr} \cup [len : ArrayLens, data : {1}] \cup [len : {MaxLen}, data : Data]
\* jint values passed as output_byte_count, and as input_size / output_size.
Sizes == {-1, 0, MaxLen}
InSizes == {0, MaxLen}
\* (dt_us, sr_hz) pairs the caller may pass.
Geometries == {10000, 1234} \X {16000, 12345}

\* Engine state of a freshly initialised session, of a session that last
\* concealed a frame, and the contents of memory that holds no session.
StInit == 0
StPlc == NData + 1
StJunk == 0 - 1
\* Contents of the caller's output array before a call, and after a failed
\* engine call (undefined contents).
OutOrig == << >>
OutJunk == << StJunk >>

VARIABLES
    blocks,     \* [Addr -> {"free","enc","dec"}]: the malloc heap; what each live block holds
    mem,        \* [Addr -> Int]: engine state stored in each block
    encHeld,    \* encoder handles the caller still holds (not replaced by 0)
    decHeld,    \* decoder handles the caller still holds
    released,   \* handles ever passed to releaseEncoder / releaseDecoder
    nulled,     \* the caller has replaced every handle by 0 after releasing it
    fault,      \* the process was killed by a memory fault
    last,       \* trace of the last native call
    thr         \* the two concurrent caller threads: position and locals of each

vars == << blocks, mem, encHeld, decHeld, released, nulled, fault, last, thr >>

Threads == {1, 2}

Live == {a \in Addr : blocks[a] # "free"}

\* ------------------------------------------------------------ liblc3 (external engine)
\* lc3_frame_samples / lc3_encoder_size / lc3_decoder_size: 0 for an
\* unsupported (dt_us, sr_hz), strictly positive otherwise.
ValidGeometry(g) == g[1] \in {7500, 10000} /\ g[2] \in {8000, 16000, 24000, 32000, 48000}
lc3_frame_samples(g) == IF ValidGeometry(g) THEN (g[1] * (g[2] \div 100)) \div 10000 ELSE 0
lc3_encoder_size(g) == IF ValidGeometry(g) THEN 64 + 4 * lc3_frame_samples(g) ELSE 0
lc3_decoder_size(g) == IF ValidGeometry(g) THEN 96 + 6 * lc3_frame_samples(g) ELSE 0

\* Statuses lc3_encode can return on a live encoder.
EncodeStatuses == {0, -1}
\* Statuses lc3_decode can return on a live decoder: a NULL input is
\* concealment (1); present input decodes (0), is concealed (1) or fails (-1).
DecodeStatuses(inNull) == IF inNull THEN {1} ELSE {0, 1, -1}
\* Every status an engine call on memory that holds no such session can produce.
AnyStatus == {-1, 0, 1}

\* New engine state and produced output of one engine call on state st.
EngineNext(st, ret, d) == IF ret = 0 THEN d ELSE IF ret = 1 THEN StPlc ELSE st
EngineOut(st, ret, d) == IF ret = 0 THEN << st, d >> ELSE IF ret = 1 THEN << st, StPlc >> ELSE OutJunk

\* ------------------------------------------------------------ trace of a call
NoCall ==
    [op |-> "none", h |-> NULL, ret |-> 0, returned |-> TRUE,
     size |-> 0, mallocCalled |-> FALSE, initCalled |-> FALSE,
     allocated |-> {}, freed |-> {}, liveBefore |-> {}, liveAfter |-> {},
     stale |-> FALSE, recycled |-> FALSE,
     engine |-> "no", engineIn |-> "none",
     inLen |-> -1, outLen |-> -1, obc |-> 0,
     pinFailed |-> FALSE,
     inPins |-> 0, inRels |-> 0, inMode |-> "none",
     outPins |-> 0, outRels |-> 0, outMode |-> "none",
     oobIn |-> {}, oobOut |-> {}, outArr |-> OutOrig]

\* A thread that has not created its session yet.  h is its handle, n the
\* frames it has pushed, d / st / ret / out the locals of the call in progress
\* (frame, engine state read, status, output buffer); ref and exp are what a
\* run of this thread alone gives for the session state and the output.
ThreadStart ==
    [pc |-> "start", kind |-> "free", h |-> NULL, n |-> 0, d |-> 0, st |-> StJunk,
     ret |-> 0, out |-> OutOrig, ref |-> StJunk, exp |-> OutOrig]

\* Indices the debug log reads at or beyond the end of an array of length len.
DebugOob(len) == {i \in 0..(DebugBytes - 1) : i >= len}

Init ==
    /\ blocks = [a \in Addr |-> "free"]
    /\ mem = [a \in Addr |-> StJunk]
    /\ encHeld = {}
    /\ decHeld = {}
    /\ released = {}
    /\ nulled = TRUE
    /\ fault = FALSE
    /\ last = NoCall
    /\ thr = [t \in Threads |-> ThreadStart]

\* ------------------------------------------------------------ setupEncoder / setupDecoder
\* malloc(size): NULL, or the address of a block that is not live.
MallocResults == {NULL} \cup {a \in Addr : blocks[a] = "free"}

\* The footprint is 0: return 0 at once.
setupSizeZero_mallocFirst(t, m) ==
    [t EXCEPT !.mallocCalled = TRUE, !.allocated = {m} \ {NULL}, !.freed = {m} \ {NULL}]
setupSizeZero(t, m) == t

\* The initialiser returned NULL: free the block, return 0.
setupInitFailed_leak(t, m) ==
    [t EXCEPT !.mallocCalled = TRUE, !.initCalled = TRUE, !.allocated = {m}]
setupInitFailed(t, m) ==
    [t EXCEPT !.mallocCalled = TRUE, !.initCalled = TRUE, !.allocated = {m}, !.freed = {m}]

\* The handler body: size is the footprint, m what malloc would return,
\* initOk whether the engine initialiser accepts the block.  An accepting
\* initialiser returns the block it was given, which becomes the handle.
setupTrace(op, size, m, initOk) ==
    LET base == [NoCall EXCEPT !.op = op, !.size = size, !.liveBefore = Live,
                                !.liveAfter = Live]
    IN  IF size = 0 THEN setupSizeZero(base, m)
        ELSE IF m = NULL THEN [base EXCEPT !.mallocCalled = TRUE]
        ELSE IF ~initOk THEN setupInitFailed(base, m)
        ELSE [base EXCEPT !.mallocCalled = TRUE, !.initCalled = TRUE,
                          !.allocated = {m}, !.ret = m,
                          !.liveAfter = Live \cup {m},
                          !.recycled = m \in released]

Setup(op, kind, size, m, initOk) ==
    LET t == setupTrace(op, size, m, initOk)
        got == t.allocated \ t.freed
    IN  /\ ~fault
        /\ last' = t
        /\ blocks' = [a \in Addr |-> IF a \in got THEN kind ELSE blocks[a]]
        /\ mem' = [a \in Addr |-> IF a \in got THEN StInit ELSE mem[a]]
        /\ encHeld' = IF kind = "enc" /\ t.ret # NULL THEN encHeld \cup {t.ret} ELSE encHeld
        /\ decHeld' = IF kind = "dec" /\ t.ret # NULL THEN decHeld \cup {t.ret} ELSE decHeld
        /\ UNCHANGED << released, nulled, fault, thr >>

setupEncoder ==
    \E g \in Geometries, m \in MallocResults, initOk \in BOOLEAN :
        Setup("setupEncoder", "enc", lc3_encoder_size(g), m, initOk)

setupDecoder ==
    \E g \in Geometries, m \in MallocResults, initOk \in BOOLEAN :
        Setup("setupDecoder", "dec", lc3_decoder_size(g), m, initOk)

\* ------------------------------------------------------------ releaseEncoder / releaseDecoder
\* The blocks the handler passes to free().
releaseFrees_none(h) == {}
releaseFrees(h) == IF h # NULL THEN {h} ELSE {}

Release(op, h, forget) ==
    LET fr == releaseFrees(h)
    IN  /\ ~fault
        /\ last' = [NoCall EXCEPT !.op = op, !.h = h, !.freed = fr,
                                  !.liveBefore = Live, !.liveAfter = Live \ fr,
                                  !.stale = (h # NULL /\ blocks[h] = "free")]
        /\ blocks' = [a \in Addr |-> IF a \in fr THEN "free" ELSE blocks[a]]
        /\ mem' = [a \in Addr |-> IF a \in fr THEN StJunk ELSE mem[a]]
        /\ released' = released \cup fr
        /\ nulled' = (nulled /\ (h = NULL \/ forget))
        /\ encHeld' = IF forget /\ op = "releaseEncoder" THEN encHeld \ {h} ELSE encHeld
        /\ decHeld' = IF forget /\ op = "releaseDecoder" THEN decHeld \ {h} ELSE decHeld
        /\ fault' \in (IF (fr \ Live) # {} THEN BOOLEAN ELSE {FALSE})
        /\ UNCHANGED thr

releaseEncoder ==
    \E h \in encHeld \cup {NULL}, forget \in BOOLEAN : Release("releaseEncoder", h, forget)

releaseDecoder ==
    \E h \in decHeld \cup {NULL}, forget \in BOOLEAN : Release("releaseDecoder", h, forget)

\* ------------------------------------------------------------ JNI array pinning
\* What GetByteArrayElements / ReleaseByteArrayElements leave in the trace:
\* the array pinned once and released once with the given mode.
PinnedIn(t, mode) == [t EXCEPT !.inPins = 1, !.inRels = 1, !.inMode = mode]
PinnedOut(t, mode) == [t EXCEPT !.outPins = 1, !.outRels = 1, !.outMode = mode]

\* Outcomes the environment decides during one call: whether each pin
\* succeeds (pinI, pinO), the engine's status (eret), and at which access
\* outside a buffer or outside a live session, if any, the process faults
\* ("in": debug read of the input, "engine": engine on memory holding no such
\* session, "out": debug read of the output).
Nd0 == [pinI |-> TRUE, pinO |-> TRUE, eret |-> 0, flt |-> "none"]
PinFailures(pins) == {[Nd0 EXCEPT !.pinI = p[1], !.pinO = p[2]] : p \in pins \ {<< TRUE, TRUE >>}}
EngineOutcomes(statuses, faults) ==
    {[Nd0 EXCEPT !.eret = r, !.flt = f] : r \in statuses, f \in {"none"} \cup faults}
\* The places of a call on handle h where a fault is possible.
FaultPoints(h, kind, oobI, oobO) ==
    (IF oobI # {} THEN {"in"} ELSE {}) \cup (IF oobO # {} THEN {"out"} ELSE {})
        \cup (IF blocks[h] # kind THEN {"engine"} ELSE {})
AllPins == BOOLEAN \X BOOLEAN
NoPinFailure == {<< TRUE, TRUE >>}

\* ------------------------------------------------------------ encode
\* Entry check of encode.
encodeArgsInvalid(h, ia, oa) == h = NULL \/ ia.len = -1 \/ oa.len = -1

\* The two size checks made after both arrays are pinned.
encodeSizesInvalid_inputOnly(isz, obc) == isz <= 0
encodeSizesInvalid(isz, obc) == isz <= 0 \/ obc <= 0

\* Release mode of the output array on the paths that return before the engine.
encodeRejectOutMode == "abort"

\* Trace when one of the two pins failed: whatever was pinned is released.
encodePinFailed(t, pinI, pinO) ==
    LET a == IF pinI THEN PinnedIn(t, "abort") ELSE t
    IN  IF pinO THEN PinnedOut(a, "abort") ELSE a

\* Indices of the input / output buffer the debug log of encode reads.
encodeLogsInput(ia) == DebugOob(ia.len)
encodeLogsOutput(oa, ret) == IF ret >= 0 THEN DebugOob(oa.len) ELSE {}

\* Statuses the engine call of encode(h) can produce in the current heap.
encodeEngineStatuses(h) ==
    IF h \in Addr /\ blocks[h] = "enc" THEN EncodeStatuses ELSE AnyStatus

\* The handler body.
encodeTrace(h, ia, isz, obc, oa, nd) ==
    LET base == [NoCall EXCEPT !.op = "encode", !.h = h, !.inLen = ia.len,
                                !.outLen = oa.len, !.obc = obc,
                                !.liveBefore = Live, !.liveAfter = Live,
                                !.stale = (h \in Addr /\ blocks[h] = "free")]
    IN  IF encodeArgsInvalid(h, ia, oa) THEN [base EXCEPT !.ret = -1]
        ELSE IF ~nd.pinI \/ ~nd.pinO
             THEN [encodePinFailed(base, nd.pinI, nd.pinO) EXCEPT !.ret = -1, !.pinFailed = TRUE]
        ELSE IF encodeSizesInvalid(isz, obc)
             THEN [PinnedOut(PinnedIn(base, "abort"), encodeRejectOutMode) EXCEPT !.ret = -1]
        ELSE LET logged == [base EXCEPT !.inPins = 1, !.outPins = 1,
                                        !.oobIn = encodeLogsInput(ia)]
             IN  IF logged.oobIn # {} /\ nd.flt = "in"
                 THEN [logged EXCEPT !.returned = FALSE]
                 ELSE LET ok == blocks[h] = "enc"
                          called == [logged EXCEPT !.engine = IF ok THEN "ok" ELSE "nosession",
                                                   !.engineIn = "data", !.ret = nd.eret]
                          rd == encodeLogsOutput(oa, nd.eret)
                      IN  IF ~ok /\ nd.flt = "engine"
                          THEN [called EXCEPT !.returned = FALSE]
                          ELSE IF rd # {} /\ nd.flt = "out"
                          THEN [called EXCEPT !.oobOut = rd, !.returned = FALSE]
                          ELSE [PinnedOut(PinnedIn(called, "abort"), "commit")
                                   EXCEPT !.oobOut = rd,
                                          !.outArr = IF ok THEN EngineOut(mem[h], nd.eret, ia.data)
                                                          ELSE OutJunk]

\* The outcomes the environment can decide on the path the arguments take.
encodeOutcomes(h, ia, isz, obc, oa, pins) ==
    IF encodeArgsInvalid(h, ia, oa) THEN {Nd0}
    ELSE PinFailures(pins) \cup
         (IF encodeSizesInvalid(isz, obc) THEN {Nd0}
          ELSE EngineOutcomes(encodeEngineStatuses(h),
                              FaultPoints(h, "enc", encodeLogsInput(ia), encodeLogsOutput(oa, 0))))

\* Effect of a call with trace t on handle h and frame d on the engine state:
\* the session at h advances; memory holding no such session is clobbered.
EngineEffect(t, h, d) ==
    [a \in Addr |->
        IF t.engine = "no" \/ a # h \/ ~t.returned THEN mem[a]
        ELSE IF t.engine = "ok" THEN EngineNext(mem[a], t.ret, d)
        ELSE StJunk]

EncodeCall(ins, outs, isizes, sizes, pins) ==
    /\ ~fault
    /\ \E h \in encHeld \cup {NULL}, ia \in ins, oa \in outs, isz \in isizes, obc \in sizes :
         \E nd \in encodeOutcomes(h, ia, isz, obc, oa, pins) :
            LET t == encodeTrace(h, ia, isz, obc, oa, nd)
            IN  /\ last' = t
                /\ fault' = ~t.returned
                /\ mem' = EngineEffect(t, h, ia.data)
    /\ UNCHANGED << blocks, encHeld, decHeld, released, nulled, thr >>

\* ------------------------------------------------------------ decode
\* Entry check of decode: a null input array is allowed (concealment).
decodeArgsInvalid_likeEncode(h, ia, oa) == h = NULL \/ ia.len = -1 \/ oa.len = -1
decodeArgsInvalid(h, ia, oa) == h = NULL \/ oa.len = -1

\* Trace when the output pin failed: the input, if it was pinned, is released.
decodeOutPinFailed_leak(t, inPinned) == IF inPinned THEN [t EXCEPT !.inPins = 1] ELSE t
decodeOutPinFailed(t, inPinned) == IF inPinned THEN PinnedIn(t, "abort") ELSE t

\* Indices of the output buffer the debug log of decode reads.
decodeLogsOutput(oa, ret) == DebugOob(oa.len)

decodeEngineStatuses(h, ia) ==
    IF h \in Addr /\ blocks[h] = "dec" THEN DecodeStatuses(ia.len = -1) ELSE AnyStatus

\* The handler body.
decodeTrace(h, ia, isz, oa, osz, nd) ==
    LET base == [NoCall EXCEPT !.op = "decode", !.h = h, !.inLen = ia.len,
                                !.outLen = oa.len, !.obc = osz,
                                !.liveBefore = Live, !.liveAfter = Live,
                                !.stale = (h \in Addr /\ blocks[h] = "free")]
        hasIn == ia.len # -1
    IN  IF decodeArgsInvalid(h, ia, oa) THEN [base EXCEPT !.ret = -1]
        ELSE IF hasIn /\ ~nd.pinI THEN [base EXCEPT !.ret = -1, !.pinFailed = TRUE]
        ELSE IF ~nd.pinO
             THEN [decodeOutPinFailed(base, hasIn) EXCEPT !.ret = -1, !.pinFailed = TRUE]
        ELSE LET ok == blocks[h] = "dec"
                 called == [base EXCEPT !.inPins = IF hasIn THEN 1 ELSE 0,
                                        !.outPins = 1,
                                        !.engine = IF ok THEN "ok" ELSE "nosession",
                                        !.engineIn = IF hasIn THEN "data" ELSE "null",
                                        !.ret = nd.eret]
                 rd == decodeLogsOutput(oa, nd.eret)
                 done == IF hasIn THEN PinnedIn(called, "abort") ELSE called
             IN  IF ~ok /\ nd.flt = "engine"
                 THEN [called EXCEPT !.returned = FALSE]
                 ELSE IF rd # {} /\ nd.flt = "out"
                 THEN [called EXCEPT !.oobOut = rd, !.returned = FALSE]
                 ELSE [PinnedOut(done, "commit")
                          EXCEPT !.oobOut = rd,
                                 !.outArr = IF ok THEN EngineOut(mem[h], nd.eret, ia.data)
                                                 ELSE OutJunk]

decodeOutcomes(h, ia, oa, pins) ==
    IF decodeArgsInvalid(h, ia, oa) THEN {Nd0}
    ELSE {nd \in PinFailures(pins) : (ia.len # -1 /\ ~nd.pinI) \/ ~nd.pinO} \cup
         EngineOutcomes(decodeEngineStatuses(h, ia),
                        FaultPoints(h, "dec", {}, decodeLogsOutput(oa, 0)))

DecodeCall(ins, outs, sizes, pins) ==
    /\ ~fault
    /\ \E h \in decHeld \cup {NULL}, ia \in ins, oa \in outs, isz \in sizes, osz \in {MaxLen} :
         \E nd \in decodeOutcomes(h, ia, oa, pins) :
            LET t == decodeTrace(h, ia, isz, oa, osz, nd)
            IN  /\ last' = t
                /\ fault' = ~t.returned
                /\ mem' = EngineEffect(t, h, ia.data)
    /\ UNCHANGED << blocks, encHeld, decHeld, released, nulled, thr >>

\* ------------------------------------------------------------ session lifecycle
\* A caller that passes whole frames: present arrays of the largest length,
\* positive sizes; decode may pass no input (a lost packet).
FrameArrays == {a \in Arrays : a.len = MaxLen}
FrameOut == {[len |-> MaxLen, data |-> 0]}
FrameSizes == {MaxLen}

encode == EncodeCall(FrameArrays, FrameOut, FrameSizes, FrameSizes, NoPinFailure)

decode == DecodeCall(FrameArrays \cup {NullArr}, FrameOut, FrameSizes, NoPinFailure)

Next ==
    \/ setupEncoder \/ setupDecoder
    \/ encode \/ decode
    \/ releaseEncoder \/ releaseDecoder

Spec == Init /\ [][Next]_vars

\* The lifecycle alone: sessions are created and released, no frame is pushed.
NextLifecycle == setupEncoder \/ setupDecoder \/ releaseEncoder \/ releaseDecoder

SpecLifecycle == Init /\ [][NextLifecycle]_vars

\* ------------------------------------------------------------ argument handling
\* encode / decode with every kind of argument (null, short and whole arrays,
\* non-positive sizes, failing pins) on the handles of four heaps the
\* lifecycle reaches: no session; a live encoder and a live decoder; both
\* released but still held; both addresses recycled for the other kind.
OutArrays == {NullArr} \cup [len : ArrayLens, data : {0}]

CallHeaps ==
    LET rest(k) == [a \in Addr |-> IF a = 1 THEN k[1] ELSE IF a = 2 THEN k[2] ELSE "free"]
        init(b) == [a \in Addr |-> IF b[a] = "free" THEN StJunk ELSE StInit]
        heap(k, held, rel) ==
            [blocks |-> rest(k), mem |-> init(rest(k)), encHeld |-> IF held THEN {1} ELSE {},
             decHeld |-> IF held THEN {2} ELSE {}, released |-> rel]
    IN  { heap(<< "free", "free" >>, FALSE, {}),
          heap(<< "enc", "dec" >>, TRUE, {}),
          heap(<< "free", "free" >>, TRUE, {1, 2}),
          [heap(<< "dec", "enc" >>, TRUE, {1, 2}) EXCEPT !.encHeld = {1, 2}, !.decHeld = {1, 2}] }

InitCalls ==
    /\ \E c \in CallHeaps :
          /\ blocks = c.blocks
          /\ mem = c.mem
          /\ encHeld = c.encHeld
          /\ decHeld = c.decHeld
          /\ released = c.released
          /\ nulled = (c.released = {})
    /\ fault = FALSE
    /\ last = NoCall
    /\ thr = [t \in Threads |-> ThreadStart]

encodeArgs == EncodeCall(Arrays, OutArrays, InSizes, Sizes, AllPins)

\* decode hands input_size to the engine unread and never reads output_size.
decodeArgs == DecodeCall(Arrays, OutArrays, FrameSizes, AllPins)

NextCalls == encodeArgs \/ decodeArgs

SpecCalls == InitCalls /\ [][NextCalls]_vars

\* ------------------------------------------------------------ two concurrent threads
\* Each thread creates one session, pushes up to MaxCalls frames through it and
\* releases it.  A native call is not atomic: malloc, the initialiser, the
\* engine's read of the session and its write back are separate steps that
\* interleave with the other thread's.
\* The session the engine works on for a handle.
engineAddr_shared(h) == 1
engineAddr(h) == h

\* What callers 1 and 2 hold and do is independent of the single caller above.
CallerIdle == UNCHANGED << encHeld, decHeld, released, nulled, fault, last >>

Upd(t, r) == thr' = [thr EXCEPT ![t] = r]

\* setup, up to malloc: NULL fails the call.
ThreadMalloc(t) ==
    /\ thr[t].pc = "start"
    /\ \E kind \in {"enc", "dec"}, m \in MallocResults :
          IF m = NULL
          THEN /\ Upd(t, [thr[t] EXCEPT !.pc = "done"])
               /\ UNCHANGED << blocks, mem >>
          ELSE /\ blocks' = [blocks EXCEPT ![m] = kind]
               /\ Upd(t, [thr[t] EXCEPT !.pc = "init", !.kind = kind, !.h = m])
               /\ UNCHANGED mem
    /\ CallerIdle

\* setup, the engine initialiser and the return: a rejected block is freed.
ThreadInit(t) ==
    /\ thr[t].pc = "init"
    /\ \E ok \in BOOLEAN :
          IF ok
          THEN /\ mem' = [mem EXCEPT ![thr[t].h] = StInit]
               /\ Upd(t, [thr[t] EXCEPT !.pc = "idle", !.ref = StInit])
               /\ UNCHANGED blocks
          ELSE /\ blocks' = [blocks EXCEPT ![thr[t].h] = "free"]
               /\ Upd(t, [thr[t] EXCEPT !.pc = "done", !.h = NULL])
               /\ UNCHANGED mem
    /\ CallerIdle

\* encode / decode up to the engine call: the arguments pass the entry checks
\* and both arrays are pinned.  d = 0 is decode without input.
ThreadCall(t) ==
    /\ thr[t].pc = "idle"
    /\ thr[t].n < MaxCalls
    /\ \E d \in Data \cup (IF thr[t].kind = "dec" THEN {0} ELSE {}) :
          Upd(t, [thr[t] EXCEPT !.pc = "load", !.d = d])
    /\ UNCHANGED << blocks, mem >>
    /\ CallerIdle

\* The engine reads the session.
ThreadLoad(t) ==
    /\ thr[t].pc = "load"
    /\ Upd(t, [thr[t] EXCEPT !.pc = "store", !.st = mem[engineAddr(thr[t].h)]])
    /\ UNCHANGED << blocks, mem >>
    /\ CallerIdle

\* The engine writes the session and the output buffer and returns its status.
ThreadStore(t) ==
    /\ thr[t].pc = "store"
    /\ \E ret \in (IF thr[t].kind = "enc" THEN EncodeStatuses
                   ELSE DecodeStatuses(thr[t].d = 0)) :
          LET c == thr[t]
          IN  /\ mem' = [mem EXCEPT ![engineAddr(c.h)] = EngineNext(c.st, ret, c.d)]
              /\ Upd(t, [c EXCEPT !.pc = "ret", !.ret = ret,
                                  !.out = EngineOut(c.st, ret, c.d),
                                  !.exp = EngineOut(c.ref, ret, c.d),
                                  !.ref = EngineNext(c.ref, ret, c.d)])
    /\ UNCHANGED blocks
    /\ CallerIdle

\* The arrays are released and the call returns.
ThreadReturn(t) ==
    /\ thr[t].pc = "ret"
    /\ Upd(t, [thr[t] EXCEPT !.pc = "idle", !.n = thr[t].n + 1])
    /\ UNCHANGED << blocks, mem >>
    /\ CallerIdle

\* releaseEncoder / releaseDecoder; the thread then drops the handle.
ThreadRelease(t) ==
    /\ thr[t].pc = "idle"
    /\ blocks' = [a \in Addr |-> IF a \in releaseFrees(thr[t].h) THEN "free" ELSE blocks[a]]
    /\ mem' = [a \in Addr |-> IF a \in releaseFrees(thr[t].h) THEN StJunk ELSE mem[a]]
    /\ Upd(t, [thr[t] EXCEPT !.pc = "done"])
    /\ CallerIdle

NextIso ==
    \E t \in Threads :
        \/ ThreadMalloc(t) \/ ThreadInit(t)
        \/ ThreadCall(t) \/ ThreadLoad(t) \/ ThreadStore(t) \/ ThreadReturn(t)
        \/ ThreadRelease(t)

SpecIso == Init /\ [][NextIso]_vars

\* ============================================================ claims
SetupOps == {"setupEncoder", "setupDecoder"}
ReleaseOps == {"releaseEncoder", "releaseDecoder"}
CallOps == {"encode", "decode"}

\* C1: a failing setup call returns 0 and leaves the live allocations as they
\* were; a succeeding one returns a non-zero handle and adds exactly the
\* allocation the handle refers to; so while nothing has been released the
\* live allocations are as many as the non-zero handles returned.
C1_SetupAccounting ==
    /\ last.op \in SetupOps =>
          /\ last.ret = NULL => Live = last.liveBefore
          /\ last.ret # NULL => last.ret \notin last.liveBefore
                                /\ Live = last.liveBefore \cup {last.ret}
    /\ released = {} => Cardinality(Live) = Cardinality(encHeld) + Cardinality(decHeld)

\* A setup whose initialiser failed while another session is live.
C1_Witness ==
    /\ last.op = "setupEncoder"
    /\ last.initCalled /\ last.ret = NULL /\ last.allocated # {}
    /\ last.liveBefore # {}

\* C6: a setup call with footprint 0 calls neither malloc nor the
\* initialiser and returns 0.
C6_ZeroFootprint ==
    (last.op \in SetupOps /\ last.size = 0) =>
        /\ ~last.mallocCalled /\ ~last.initCalled
        /\ last.allocated = {} /\ last.ret = NULL
        /\ Live = last.liveBefore

C6_Witness == last.op = "setupDecoder" /\ last.size = 0 /\ Live # {}

\* C5: release(0) leaves the live allocations unchanged; release of a live
\* handle reclaims exactly its allocation; a caller that replaces every
\* released handle by 0 never frees an allocation that is not live.
C5_Release ==
    last.op \in ReleaseOps =>
        /\ last.h = NULL => Live = last.liveBefore
        /\ last.h \in last.liveBefore => Live = last.liveBefore \ {last.h}
        /\ nulled => last.freed \subseteq last.liveBefore

\* A disciplined caller releases one of two live sessions after an earlier release.
C5_Witness ==
    /\ last.op = "releaseDecoder" /\ last.h \in last.liveBefore
    /\ nulled /\ Live # {} /\ released # {last.h}

\* C7: a handle returned by setup is not the handle of a live session and has
\* never been released before.
C7_HandlesNeverReused ==
    (last.op \in SetupOps /\ last.ret # NULL) =>
        last.ret \notin last.liveBefore /\ ~last.recycled

\* C3: encode / decode on a handle whose allocation has been released returns
\* a negative status without invoking the engine.
C3_StaleHandleRejected ==
    (last.op \in CallOps /\ last.stale) =>
        last.returned /\ last.ret < 0 /\ last.engine = "no"

\* C2: encode with a null handle, a null input or output array, or an output
\* capacity <= 0 returns a negative status without invoking the engine.
C2_EncodeRejects ==
    (last.op = "encode"
        /\ (last.h = NULL \/ last.inLen = -1 \/ last.outLen = -1 \/ last.obc <= 0)) =>
        last.returned /\ last.ret < 0 /\ last.engine = "no"

\* A live encoder, both arrays present and pinned, rejected for its capacity alone.
C2_Witness ==
    /\ last.op = "encode" /\ last.h \in Addr /\ blocks[last.h] = "enc"
    /\ last.inLen = MaxLen /\ last.outLen = MaxLen /\ last.obc <= 0
    /\ last.inPins = 1 /\ last.outPins = 1 /\ last.ret = -1

\* decode on a live decoder with no input and an output array.
ConcealCall ==
    /\ last.op = "decode" /\ last.h \in Addr /\ blocks[last.h] = "dec"
    /\ last.inLen = -1 /\ last.outLen # -1

C9_NoOutOfBounds == last.oobIn = {} /\ last.oobOut = {}

\* C10: when encode / decode returns, every pinned array has been released
\* exactly once, the input never with copy-back, the output with copy-back
\* only if the engine was invoked; without the engine the output is unchanged.
C10_PinBalance ==
    (last.op \in CallOps /\ last.returned) =>
        /\ last.inPins <= 1 /\ last.inRels = last.inPins
        /\ last.outPins <= 1 /\ last.outRels = last.outPins
        /\ last.inMode = (IF last.inPins = 1 THEN "abort" ELSE "none")
        /\ last.outMode = (IF last.outPins = 0 THEN "none"
                           ELSE IF last.engine = "no" THEN "abort" ELSE "commit")
        /\ last.engine = "no" => last.outArr = OutOrig

\* decode returns after the output pin failed with the input pinned.
C10_Witness ==
    /\ last.op = "decode" /\ last.pinFailed /\ last.returned
    /\ last.inPins = 1 /\ last.inRels = 1 /\ last.outPins = 0

\* C8: whatever the interleaving, each thread's session holds the state, and
\* each call returns the output, that the thread's own calls alone give; the
\* other thread's steps leave the session allocated and untouched.
C8_Isolation ==
    \A t \in Threads :
        thr[t].pc \in {"idle", "load", "store", "ret"} =>
            /\ blocks[thr[t].h] = thr[t].kind
            /\ mem[thr[t].h] = thr[t].ref
            /\ thr[t].pc \in {"idle", "ret"} => thr[t].out = thr[t].exp

\* Both threads are inside an engine call at once, each after an earlier call.
C8_Witness ==
    /\ thr[1].pc = "ret" /\ thr[2].pc = "store"
    /\ thr[1].n = 1 /\ thr[2].n = 1
====
